---- MODULE Spec2Model ----
(***************************************************************************)
(* Model of the image-resize pipeline.                                     *)
(*                                                                         *)
(*   api/src/main.rs        the ingress: upload_file handles one multipart *)
(*                          request, part by part: put_block_blob, then    *)
(*                          send_message_to_queue.                         *)
(*   functions/src/main.rs  the worker: one receive_and_delete_message,    *)
(*                          stream the blob, resize, put_block_blob.       *)
(*                                                                         *)
(* The blob store and the Service Bus queue are the two shared resources.  *)
(* One upload request is followed from its first part to its reply, next   *)
(* to the workers; a request shares nothing with another request but the   *)
(* store and the queue.                                                    *)
(* Every await of a network call is one step; a panic (unwrap / expect)    *)
(* ends the task that raised it.                                           *)
(***************************************************************************)
EXTENDS Integers, Sequences, FiniteSets, TLC

\* ------------------------------------------------------------------ bounds
MaxParts == 2       \* parts of the multipart request
MaxWorkers == 2     \* worker processes started against the queue

Workers == 1..MaxWorkers
PartIdx == 1..MaxParts

\* ------------------------------------------------------------- environment
\* env::var("AZURE_STORAGE_CONTAINER")
configuredContainer == "images"

\* content type given to put_block_blob
ContentType == "image/jpeg"

NoFilename == "<none>"
Filenames == {"cat.png"}

\* A payload is a sequence of chunks. SourceImage is the bytes of a decodable
\* picture, Thumbnail the JPEG the worker encodes, Garbage anything else.
SourceImage == <<"hdr", "px">>
Thumbnail == <<"jpeg">>
Garbage == <<"bad">>
Payloads == {<<>>, SourceImage, Garbage}

\* warp::multipart::Part: name(), filename(), data()
Parts == [name : {"file"}, filename : Filenames \cup {NoFilename}, data : Payloads]

RECURSIVE SeqsUpTo(_, _)
SeqsUpTo(S, n) ==
    IF n = 0 THEN {<<>>}
    ELSE LET shorter == SeqsUpTo(S, n - 1)
         IN  shorter \cup {Append(s, x) : s \in {t \in shorter : Len(t) = n - 1}, x \in S}

\* The FormData of the request: at least one part.
Forms == SeqsUpTo(Parts, MaxParts) \ {<<>>}

\* ------------------------------------------------------------ Job messages
\* struct Image { filename, image_container } of the ingress.
Image(filename, image_container) ==
    [filename |-> filename, image_container |-> image_container]

\* mutant: the ingress renames a field (camelCase)
to_string_renamed(image) ==
    <<"{", "fileName", image.filename, "imageContainer", image.image_container, "}">>

\* serde_json::to_string(&image): an object of two members, in field order.
to_string(image) ==
    <<"{", "filename", image.filename, "image_container", image.image_container, "}">>

\* A body that is not a Job, left on the queue by some other sender.
ForeignBodies == {<<"{", "filename", "cat.png", "}">>}

\* serde_json::from_str::<ImageNode>: the body must be one object; members may
\* come in any order, unknown members are skipped, each field of the struct
\* must occur exactly once.
KeyPositions(body, key) ==
    {k \in 2..(Len(body) - 2) : k % 2 = 0 /\ body[k] = key}

\* struct ImageNode { filename, image_container } of the worker.
ImageNode(filename, image_container) ==
    [filename |-> filename, image_container |-> image_container]

\* mutant: a missing field is defaulted (#[serde(default)])
from_str_default(body) ==
    [ok |-> TRUE,
     value |-> ImageNode(
         IF KeyPositions(body, "filename") = {} THEN ""
         ELSE body[(CHOOSE k \in KeyPositions(body, "filename") : TRUE) + 1],
         IF KeyPositions(body, "image_container") = {} THEN ""
         ELSE body[(CHOOSE k \in KeyPositions(body, "image_container") : TRUE) + 1])]

from_str(body) ==
    IF /\ Len(body) >= 2
       /\ Len(body) % 2 = 0
       /\ body[1] = "{"
       /\ body[Len(body)] = "}"
       /\ Cardinality(KeyPositions(body, "filename")) = 1
       /\ Cardinality(KeyPositions(body, "image_container")) = 1
    THEN [ok |-> TRUE,
          value |-> ImageNode(
              body[(CHOOSE k \in KeyPositions(body, "filename") : TRUE) + 1],
              body[(CHOOSE k \in KeyPositions(body, "image_container") : TRUE) + 1])]
    ELSE [ok |-> FALSE, value |-> ImageNode("", "")]

\* Vec::is_empty / str::is_empty
is_empty(bytes) == bytes = <<>>

\* String::from_utf8_lossy: chunks of picture bytes are not UTF-8 text and
\* come out as replacement characters.
Utf8Chunks == {}
from_utf8_lossy(bytes) ==
    [k \in DOMAIN bytes |-> IF bytes[k] \in Utf8Chunks THEN bytes[k] ELSE "U+FFFD"]

\* image::load_from_memory: Ok for the bytes of a picture only.
load_from_memory(bytes) == bytes \in {SourceImage, Thumbnail}

\* img.resize(100, 100, Triangle) written as ImageFormat::Jpeg
resize_to_jpeg(bytes) == Thumbnail

\* mutant: the result is stored under the name of the source
SameBlobName(blob_name) == blob_name

\* format!("resized_{}", blob_name)
new_blob_name(blob_name) == "resized_" \o blob_name

\* ------------------------------------------------------------- blob store
EmptyStore == [k \in {} |-> [data |-> <<>>, content_type |-> ""]]

Blob(data, content_type) == [data |-> data, content_type |-> content_type]

\* mutant: the uploaded blob replaces the content of the store
PutBlobAlone(st, key, blob) == [k \in {key} |-> blob]

\* put_block_blob(..).content_type(..) acknowledged by the store
PutBlob(st, key, blob) ==
    [k \in DOMAIN st \cup {key} |-> IF k = key THEN blob ELSE st[k]]

VARIABLES
    form,       \* the parts of the request (the FormData stream)
    pc,         \* where upload_file is in the part it handles
    idx,        \* index of the part being handled
    results,    \* the tuples collected so far (try_collect)
    response,   \* what the client got
    store,      \* blob store: <<container, blob>> -> [data, content_type]
    queue,      \* Service Bus queue: sequence of [id, body]
    nextId,     \* id of the next message accepted by the queue
    writes,     \* writes[i]: put_block_blob of part i: none/pending/ok/err
    pubs,       \* pubs[i]: send_message of part i: none/pending/ok/err
    published,  \* every message the ingress got accepted: [id, part, body]
    wpc,        \* wpc[w]: where the worker's main is
    received,   \* received[w]: the message receive_and_delete_message returned
    job,        \* job[w]: the deserialized ImageNode
    bytes,      \* bytes[w]: the chunks streamed so far
    outcome,    \* outcome[w]: how main ended: [exit, kind]
    calls       \* calls[w]: the blob store requests the worker made, in order

ingressVars == <<form, pc, idx, results, response, writes, pubs, published>>
sharedVars == <<store, queue, nextId>>
workerVars == <<wpc, received, job, bytes, outcome, calls>>
vars == <<ingressVars, sharedVars, workerVars>>

Pending == [kind |-> "pending", status |-> 0, body |-> <<>>]
\* a panic in the handler task: the connection is dropped, nothing is sent
Aborted == [kind |-> "closed", status |-> 0, body |-> <<>>]
\* Ok(format!("Uploaded files: {:?}", uploaded_files))
Reply(uploaded_files) == [kind |-> "reply", status |-> 200, body |-> uploaded_files]

\* handle_rejection: the status and message of a rejected request
handle_rejection(err) ==
    IF err = "not_found"
    THEN [kind |-> "reply", status |-> 404, body |-> <<"Not Found">>]
    ELSE IF err = "payload_too_large"
    THEN [kind |-> "reply", status |-> 400, body |-> <<"Payload too large">>]
    ELSE [kind |-> "reply", status |-> 500, body |-> <<"Internal Server Error">>]

NoMessage == [id |-> -1, body |-> <<>>]
NoJob == ImageNode("", "")
Running == [exit |-> "running", kind |-> "running"]
Done(exit, kind) == [exit |-> exit, kind |-> kind]

Init ==
    /\ form \in Forms
    /\ pc = "read"
    /\ idx = 1
    /\ results = <<>>
    /\ response = Pending
    /\ store = EmptyStore
    /\ queue \in {<<>>} \cup {<<[id |-> 0, body |-> b]>> : b \in ForeignBodies}
    /\ nextId = 1
    /\ writes = [i \in PartIdx |-> "none"]
    /\ pubs = [i \in PartIdx |-> "none"]
    /\ published = {}
    /\ wpc = [w \in Workers |-> "idle"]
    /\ received = [w \in Workers |-> NoMessage]
    /\ job = [w \in Workers |-> NoJob]
    /\ bytes = [w \in Workers |-> <<>>]
    /\ outcome = [w \in Workers |-> Running]
    /\ calls = [w \in Workers |-> <<>>]

\* ---------------------------------------------------------------- ingress
CurrentPart == form[idx]

\* mutant: the emptiness test is dropped
AlwaysUpload(data) == TRUE

\* `if !bytes.is_empty()`: the part is written and announced
HasPayload(data) == ~is_empty(data)

\* mutant: the upload is not awaited before the message is sent
AfterFilenameNoAwait == "send"

\* the step that follows part.filename().unwrap(): the awaited put_block_blob
AfterFilename == "put"

\* the step that follows the match on the result of put_block_blob: both arms
\* only print, and the handler goes on to send_message_to_queue
AfterPut(ok) == "send"

\* mutant: the message is sent again
AfterSendAgain == "send"

\* the step that follows a successful send_message_to_queue: the part's tuple
\* is returned
AfterSend == "ret"

\* unwrap / expect failed: the task panics, the connection is closed
Panic ==
    /\ pc' = "panicked"
    /\ response' = Aborted

\* entering a step issues its call
Enter(step) ==
    /\ pc' = step
    /\ writes' = IF step = "put"
                 THEN [writes EXCEPT ![idx] = "pending"]
                 ELSE writes
    /\ pubs' = IF step = "send"
               THEN [pubs EXCEPT ![idx] = "pending"]
               ELSE pubs

\* upload_file, lines 38-56: the part's stream is read; a part with bytes
\* needs its filename and starts the upload
ReadPart ==
    /\ pc = "read"
    /\ IF HasPayload(CurrentPart.data)
       THEN IF CurrentPart.filename = NoFilename
            THEN Panic /\ UNCHANGED <<writes, pubs>>
            ELSE Enter(AfterFilename) /\ UNCHANGED response
       ELSE Enter("ret") /\ UNCHANGED response
    /\ UNCHANGED <<form, idx, results, published, sharedVars, workerVars>>

\* the form stream yields an error instead of a part: try_collect fails and
\* map_err turns it into warp::reject::reject(), the not-found rejection
StreamError ==
    /\ pc = "read"
    /\ pc' = "rejected"
    /\ response' = handle_rejection("not_found")
    /\ UNCHANGED <<form, idx, results, writes, pubs, published, sharedVars, workerVars>>

\* upload_file, lines 59-72: put_block_blob returns
PutBlockBlob ==
    /\ pc = "put"
    /\ \E ok \in BOOLEAN :
        /\ store' = IF ok
                    THEN PutBlob(store,
                                 <<configuredContainer, CurrentPart.filename>>,
                                 Blob(CurrentPart.data, ContentType))
                    ELSE store
        /\ pc' = AfterPut(ok)
        /\ writes' = [writes EXCEPT ![idx] = IF ok THEN "ok" ELSE "err"]
        /\ pubs' = IF AfterPut(ok) = "send"
                   THEN [pubs EXCEPT ![idx] = "pending"]
                   ELSE pubs
    /\ UNCHANGED <<form, idx, results, response, published, queue, nextId, workerVars>>

\* mutant: the object of the part is deleted when its message was not sent
StoreRolledBack(st, key) == [k \in DOMAIN st \ {key} |-> st[k]]

\* the store after send_message failed: the panic leaves it as it is
StoreAfterFailedSend(st, key) == st

\* send_message_to_queue: send_message returns; expect panics on an error
send_message_to_queue ==
    /\ pc = "send"
    /\ \E ok \in BOOLEAN :
        IF ok
        THEN LET body == to_string(Image(CurrentPart.filename, configuredContainer))
             IN  /\ queue' = Append(queue, [id |-> nextId, body |-> body])
                 /\ nextId' = nextId + 1
                 /\ published' = published \cup
                        {[id |-> nextId, part |-> idx, body |-> body]}
                 /\ pubs' = [pubs EXCEPT ![idx] = "ok"]
                 /\ pc' = AfterSend
                 /\ UNCHANGED <<response, store>>
        ELSE /\ pubs' = [pubs EXCEPT ![idx] = "err"]
             /\ Panic
             /\ store' = StoreAfterFailedSend(
                              store, <<configuredContainer, CurrentPart.filename>>)
             /\ UNCHANGED <<queue, nextId, published>>
    /\ UNCHANGED <<form, idx, results, writes, workerVars>>

\* upload_file, lines 77-88: the part's tuple is returned and collected; after
\* the last part the reply is formatted
ReturnPart ==
    /\ pc = "ret"
    /\ IF CurrentPart.filename = NoFilename
       THEN Panic /\ UNCHANGED <<idx, results>>
       ELSE LET tuple == <<CurrentPart.name, CurrentPart.filename,
                           from_utf8_lossy(CurrentPart.data)>>
                collected == Append(results, tuple)
            IN  /\ results' = collected
                /\ IF idx = Len(form)
                   THEN /\ pc' = "responded"
                        /\ response' = Reply(collected)
                        /\ UNCHANGED idx
                   ELSE /\ pc' = "read"
                        /\ idx' = idx + 1
                        /\ UNCHANGED response
    /\ UNCHANGED <<form, writes, pubs, published, sharedVars, workerVars>>

upload_file ==
    \/ ReadPart
    \/ StreamError
    \/ PutBlockBlob
    \/ send_message_to_queue
    \/ ReturnPart

\* ----------------------------------------------------------------- worker
\* receive_and_delete_message: the head of the queue is taken off the queue
\* and its body returned; an empty queue gives an empty body
\* mutant: an empty queue hands out a Job nobody sent
ReceivedMessageInvented(q) ==
    IF q = <<>>
    THEN [id |-> 0, body |-> to_string(Image("cat.png", configuredContainer))]
    ELSE Head(q)

ReceivedMessage(q) == IF q = <<>> THEN NoMessage ELSE Head(q)

\* mutant: the message is read and left on the queue
QueueAfterPeek(q) == q

QueueAfterReceive(q) == IF q = <<>> THEN q ELSE Tail(q)

\* the blob the worker reads, and the blob it writes
SourceKey(image) == <<image.image_container, image.filename>>

\* mutant: the result replaces the source
DerivedKeyInPlace(image) == SourceKey(image)

DerivedKey(image) == <<image.image_container, new_blob_name(image.filename)>>

\* mutant: the empty body is not told apart
NeverEmpty(body) == FALSE

\* `if received_message.is_empty()`: nothing was on the queue
NoMessageReceived(body) == is_empty(body)

\* mutant: only a failed request counts as an error
ChunkErrorNetworkOnly(st, key, pos, got) == ~got

\* `value?`: the request for the next chunk came back with an error, as it
\* does when the blob does not exist (or no longer reaches that far)
ChunkError(st, key, pos, got) ==
    \/ ~got
    \/ key \notin DOMAIN st
    \/ pos > 0 /\ pos >= Len(st[key].data)

\* mutant: the bytes are decoded as soon as a chunk is there
StreamEndedEarly(data, blob) == TRUE

\* `while let Some(value) = stream.next().await` ends: the chunks read reach
\* the end of the blob
StreamEnded(data, blob) == Len(data) >= Len(blob)

\* what the store answered to a get
GetResult(st, key, got) ==
    IF ~got THEN "failed" ELSE IF key \notin DOMAIN st THEN "missing" ELSE "data"

\* mutant: main loops back to the receive for the next message
FinishAndLoop(w, exit, kind) ==
    /\ wpc' = [wpc EXCEPT ![w] = "idle"]
    /\ outcome' = [outcome EXCEPT ![w] = Done(exit, kind)]

\* main ends: Ok(()) and Err(..) return, a failed expect panics
Finish(w, exit, kind) ==
    /\ wpc' = [wpc EXCEPT ![w] = "done"]
    /\ outcome' = [outcome EXCEPT ![w] = Done(exit, kind)]

\* main, lines 34-63: the receive returns, the body is checked and parsed
Receive(w) ==
    /\ wpc[w] = "idle"
    /\ \/ /\ Finish(w, "panic", "receive")
          /\ UNCHANGED <<received, job, queue>>
       \/ LET msg == ReceivedMessage(queue)
              parsed == from_str(msg.body)
          IN  /\ queue' = QueueAfterReceive(queue)
              /\ received' = [received EXCEPT ![w] = msg]
              /\ IF NoMessageReceived(msg.body)
                 THEN Finish(w, "ok", "empty") /\ UNCHANGED job
                 ELSE IF ~parsed.ok
                 THEN Finish(w, "ok", "deserialize") /\ UNCHANGED job
                 ELSE /\ job' = [job EXCEPT ![w] = parsed.value]
                      /\ wpc' = [wpc EXCEPT ![w] = "stream"]
                      /\ UNCHANGED outcome
    /\ UNCHANGED <<ingressVars, store, nextId, bytes, calls>>

\* image::load_from_memory, resize and write_to on the drained bytes, lines
\* 77-91: a failed expect panics, otherwise the upload of the result starts
Process(w, data, encoded) ==
    IF ~load_from_memory(data)
    THEN Finish(w, "panic", "decode")
    ELSE IF ~encoded
    THEN Finish(w, "panic", "encode")
    ELSE /\ wpc' = [wpc EXCEPT ![w] = "put"]
         /\ UNCHANGED outcome

\* main, lines 69-91: one stream.next(); the request for the next chunk fails
\* (`value?` returns the error) or its data is appended; after the last chunk
\* the stream ends and the bytes are processed
ReadChunk(w) ==
    /\ wpc[w] = "stream"
    /\ \E got \in BOOLEAN, encoded \in BOOLEAN :
        LET key == SourceKey(job[w])
            pos == Len(bytes[w])
            blob == IF key \in DOMAIN store THEN store[key].data ELSE <<>>
            data == IF pos < Len(blob) THEN Append(bytes[w], blob[pos + 1]) ELSE bytes[w]
        IN  /\ calls' = [calls EXCEPT ![w] =
                            Append(@, [op |-> "get", key |-> key, content_type |-> "",
                                       result |-> GetResult(store, key, got)])]
            /\ IF ChunkError(store, key, pos, got)
               THEN /\ encoded
                    /\ Finish(w, "error", "read")
                    /\ UNCHANGED bytes
               ELSE /\ bytes' = [bytes EXCEPT ![w] = data]
                    /\ IF StreamEnded(data, blob)
                       THEN Process(w, data, encoded)
                       ELSE encoded /\ UNCHANGED <<wpc, outcome>>
    /\ UNCHANGED <<ingressVars, sharedVars, received, job>>

\* main, lines 85-96: put_block_blob of the resized picture returns
PutResized(w) ==
    /\ wpc[w] = "put"
    /\ \E ok \in BOOLEAN :
        /\ calls' = [calls EXCEPT ![w] =
                        Append(@, [op |-> "put", key |-> DerivedKey(job[w]),
                                   content_type |-> ContentType,
                                   result |-> IF ok THEN "ok" ELSE "failed"])]
        /\ IF ok
           THEN /\ store' = PutBlob(store, DerivedKey(job[w]),
                                    Blob(resize_to_jpeg(bytes[w]), ContentType))
                /\ Finish(w, "ok", "stored")
           ELSE /\ Finish(w, "panic", "put")
                /\ UNCHANGED store
    /\ UNCHANGED <<ingressVars, queue, nextId, received, job, bytes>>

main(w) ==
    \/ Receive(w)
    \/ ReadChunk(w)
    \/ PutResized(w)

Next ==
    \/ upload_file
    \/ \E w \in Workers : main(w)

Spec == Init /\ [][Next]_vars

\* a call to the store or to the queue came back with an error, or the
\* encoder refused the picture
ServiceFailure ==
    \/ \E i \in PartIdx : writes[i] = "err" \/ pubs[i] = "err"
    \/ \E w \in Workers :
        \/ outcome[w].kind \in {"receive", "encode", "put"}
        \/ \E k \in DOMAIN calls[w] : calls[w][k].result = "failed"

\* a step of the handler, a step of worker w, in which no service fails
UploadStep == upload_file /\ ~ServiceFailure'
WorkerStep(w) == main(w) /\ ~ServiceFailure'

FairNext ==
    \/ UploadStep
    \/ \E w \in Workers : WorkerStep(w)

\* The pipeline while the store, the queue and the encoder work: the handler
\* task and every started worker process run on, each awaited call returns
\* and the code after it runs.
FairSpec ==
    /\ Init
    /\ [][FairNext]_vars
    /\ WF_vars(UploadStep)
    /\ \A w \in Workers : WF_vars(WorkerStep(w))

\* ----------------------------------------------------------------- claims
\* upload_file has returned or its task has ended
Ended == pc \in {"responded", "panicked", "rejected"}

\* the handler is done with part i
PartOver(i) == i < idx \/ (i = idx /\ (Ended \/ pc = "ret"))

\* the Jobs published for part i
JobsOf(i) == {m \in published : m.part = i}

\* the requests of kind op that worker w sent to the blob store
CallsOf(w, op) == {k \in DOMAIN calls[w] : calls[w][k].op = op}

\* C1: no Job is published for a part whose object write failed: every Job
\* ever published belongs to a part whose put_block_blob was acknowledged.
C1_NoJobWithoutWrite ==
    \A m \in published : writes[m.part] = "ok"

\* C2: the publish of a part is never attempted before the part's object
\* write has returned: whenever send_message has been called for a part, the
\* part's put_block_blob has completed, so the two are never in flight together.
C2_WriteBeforePublish ==
    \A i \in PartIdx : pubs[i] # "none" => writes[i] \in {"ok", "err"}

C2_Witness ==
    \E i \in PartIdx : pubs[i] = "pending" /\ writes[i] = "ok"

\* C3 as stated: once the handler is done with a part whose object write
\* succeeded, exactly one Job has been published for it.
C3_ExactlyOnce ==
    \A i \in PartIdx :
        (writes[i] = "ok" /\ PartOver(i)) => Cardinality(JobsOf(i)) = 1

\* C3 amended: for a part whose object write succeeded, at most one Job is
\* ever published; once the handler is done with the part, exactly one Job,
\* naming the part's filename and the configured container, has been
\* published and entered the queue if send_message succeeded, and none if it
\* failed.
C3_ExactlyOnceIfSent ==
    \A i \in PartIdx :
        writes[i] = "ok" =>
            /\ Cardinality(JobsOf(i)) <= 1
            /\ PartOver(i) =>
                /\ pubs[i] \in {"ok", "err"}
                /\ pubs[i] = "err" => JobsOf(i) = {}
                /\ pubs[i] = "ok" =>
                    /\ Cardinality(JobsOf(i)) = 1
                    /\ \A m \in JobsOf(i) :
                        /\ m.body = <<"{", "filename", form[i].filename,
                                      "image_container", configuredContainer, "}">>
                        /\ <<configuredContainer, form[i].filename>> \in DOMAIN store
                        /\ \/ \E k \in DOMAIN queue : queue[k] = [id |-> m.id, body |-> m.body]
                           \/ \E w \in Workers : received[w] = [id |-> m.id, body |-> m.body]

C3_Witness ==
    \E i \in PartIdx :
        writes[i] = "ok" /\ pubs[i] = "ok" /\ PartOver(i) /\ Cardinality(JobsOf(i)) = 1

\* C4: a part with an empty payload causes no object write and no publish:
\* every step the handler takes on such a part leaves the store and the queue
\* as they were and issues neither call.
C4_EmptyPartNoEffect ==
    [][(is_empty(CurrentPart.data) /\ (pc' # pc \/ idx' # idx)) =>
          /\ store' = store
          /\ queue' = queue
          /\ published' = published
          /\ writes'[idx] = "none"
          /\ pubs'[idx] = "none"]_vars

C4_Witness ==
    \E i \in PartIdx :
        /\ i <= Len(form)
        /\ is_empty(form[i].data)
        /\ i < idx
        /\ store # EmptyStore

\* a part that failed: no filename, a failed write or a failed publish
PartFailed(i) ==
    \/ HasPayload(form[i].data) /\ form[i].filename = NoFilename
    \/ writes[i] = "err"
    \/ pubs[i] = "err"

\* C5: a failure in one part does not keep the later parts from being
\* attempted: when the request is over, every later part with a payload and a
\* filename has had its write attempted and, if written, its publish.
C5_FailureIsolated ==
    \A i \in DOMAIN form : \A j \in DOMAIN form :
        (/\ pc \in {"responded", "panicked"}
         /\ i < j
         /\ PartFailed(i)
         /\ HasPayload(form[j].data)
         /\ form[j].filename # NoFilename)
        => /\ writes[j] # "none"
           /\ writes[j] = "ok" => pubs[j] # "none"

\* the error indicator a reply would carry for a part whose publish failed
QueuePublishError == <<"QueuePublishError">>

\* C6: a failed publish after a successful write is surfaced to the caller:
\* when the request is over the client holds a reply whose entry for that
\* part is an error indicator.
C6_PublishFailureSurfaced ==
    \A i \in DOMAIN form :
        (Ended /\ writes[i] = "ok" /\ pubs[i] = "err") =>
            /\ response.kind = "reply"
            /\ Len(response.body) >= i
            /\ response.body[i][3] = QueuePublishError

\* C7: a worker whose receive returned no message ends successfully, as
\* Done(empty), without having sent any request to the blob store.
C7_NoMessageNoStoreCall ==
    \A w \in Workers :
        (/\ wpc[w] # "idle"
         /\ outcome[w] # Done("panic", "receive")
         /\ received[w] = NoMessage)
        => /\ wpc[w] = "done"
           /\ outcome[w] = Done("ok", "empty")
           /\ calls[w] = <<>>

C7_Witness ==
    \E w \in Workers :
        wpc[w] = "done" /\ received[w] = NoMessage /\ outcome[w] = Done("ok", "empty")

\* C8: a worker whose Job names an object that is not in the store ends with
\* the read error, has sent no write to the store and has produced no
\* derived object.
C8_MissingSourceReadError ==
    \A w \in Workers :
        (\E k \in CallsOf(w, "get") : calls[w][k].result = "missing")
        => /\ wpc[w] = "done"
           /\ outcome[w] = Done("error", "read")
           /\ CallsOf(w, "put") = {}

C8_Witness ==
    \E w \in Workers :
        /\ \E k \in CallsOf(w, "get") : calls[w][k].result = "missing"
        /\ outcome[w] = Done("error", "read")
        /\ DerivedKey(job[w]) \notin DOMAIN store

\* C9: a worker cycle that succeeded for a Job has written exactly one
\* object, at the Job's container under "resized_" + the Job's object name,
\* tagged image/jpeg like the source object the ingress wrote.
C9_DerivedObjectKey ==
    \A w \in Workers :
        outcome[w] = Done("ok", "stored") =>
            /\ Cardinality(CallsOf(w, "put")) = 1
            /\ \E m \in published :
                /\ m.id = received[w].id
                /\ \A k \in CallsOf(w, "put") :
                    /\ calls[w][k].key = <<configuredContainer,
                                            "resized_" \o form[m.part].filename>>
                    /\ calls[w][k].key # <<configuredContainer, form[m.part].filename>>
                    /\ calls[w][k].content_type = "image/jpeg"
                    /\ calls[w][k].key \in DOMAIN store
                    /\ store[calls[w][k].key].content_type = "image/jpeg"
                    /\ store[<<configuredContainer, form[m.part].filename>>].content_type
                         = store[calls[w][k].key].content_type

C9_Witness ==
    \E w \in Workers : outcome[w] = Done("ok", "stored")

\* C10: no two workers receive the same message, so no published Job leads
\* to more than one write of a derived object.
C10_NoDoubleDelivery ==
    /\ \A v \in Workers : \A w \in Workers :
        (v # w /\ received[v] # NoMessage) => received[v].id # received[w].id
    /\ \A m \in published :
        Cardinality({w \in Workers : received[w].id = m.id /\ CallsOf(w, "put") # {}}) <= 1

C10_Witness ==
    \E v \in Workers : \E w \in Workers :
        /\ v # w
        /\ received[v] # NoMessage
        /\ received[w] # NoMessage
        /\ \E m \in published : m.id = received[v].id /\ CallsOf(v, "put") # {}

\* a store, queue or picture failure has happened somewhere in the pipeline
Failure ==
    \/ \E i \in PartIdx : writes[i] = "err" \/ pubs[i] = "err"
    \/ \E w \in Workers : outcome[w].exit \in {"panic", "error"}

\* the workers not yet started
IdleWorkers == {w \in Workers : wpc[w] = "idle"}

\* the Job of part i waits in the queue and enough workers are still to be
\* started to reach it
JobAwaitsWorker(i) ==
    \E m \in JobsOf(i) : \E k \in DOMAIN queue :
        queue[k].id = m.id /\ Cardinality(IdleWorkers) >= k

\* the Job of part i was consumed and its derived object is in the store
DerivedStored(i) ==
    /\ i \in DOMAIN form
    /\ \E m \in JobsOf(i) : \E w \in Workers : received[w].id = m.id
    /\ <<configuredContainer, "resized_" \o form[i].filename>> \in DOMAIN store
    /\ store[<<configuredContainer, "resized_" \o form[i].filename>>].content_type
         = "image/jpeg"

\* the object of part i is in the store and its Job was published
WrittenAndPublished(i) ==
    /\ i \in DOMAIN form
    /\ <<configuredContainer, form[i].filename>> \in DOMAIN store
    /\ \E m \in JobsOf(i) :
        m.body = <<"{", "filename", form[i].filename,
                   "image_container", configuredContainer, "}">>

\* C11: end to end, with fair scheduling and working services, and barring
\* a failed read or decode: once the upload of a part with a payload and a
\* filename has started, the object is written and its Job published; and a
\* Job that workers started afterwards can reach is consumed and its derived
\* object, tagged image/jpeg, gets into the store.
C11_EndToEnd ==
    \A i \in PartIdx :
        /\ (writes[i] = "pending") ~> (WrittenAndPublished(i) \/ Failure)
        /\ JobAwaitsWorker(i) ~> (DerivedStored(i) \/ Failure)

C11_Witness ==
    \E i \in PartIdx :
        /\ WrittenAndPublished(i)
        /\ DerivedStored(i)
        /\ ~Failure
        /\ pc = "responded"

\* C12: round trip: every Job the ingress serialized and published
\* deserializes, in the worker that consumed it, to a Job with exactly the
\* fields filename and image_container, equal field for field to the Job of
\* the ingress.
C12_RoundTrip ==
    \A m \in published :
        LET image == Image(form[m.part].filename, configuredContainer)
        IN  /\ from_str(m.body).ok
            /\ from_str(m.body).value = image
            /\ \A w \in Workers :
                received[w].id = m.id =>
                    /\ outcome[w].kind # "deserialize"
                    /\ DOMAIN job[w] = {"filename", "image_container"}
                    /\ job[w].filename = image.filename
                    /\ job[w].image_container = image.image_container

C12_Witness ==
    \E m \in published : \E w \in Workers :
        /\ received[w].id = m.id
        /\ job[w] = Image(form[m.part].filename, configuredContainer)
        /\ job[w].filename \in Filenames

\* worker w consumed a message and its cycle ended short of the derived write
CycleFailed(w) ==
    /\ received[w] # NoMessage
    /\ wpc[w] = "done"
    /\ outcome[w] # Done("ok", "stored")

\* C13: a Job whose worker cycle failed after the receive is lost for good:
\* its message is not on the queue again, no other worker holds it, and no
\* worker writes the derived object on its behalf.
C13_FailedJobLost ==
    \A w \in Workers :
        CycleFailed(w) =>
            /\ outcome[w].kind \in {"deserialize", "read", "decode", "encode", "put"}
            /\ \A k \in DOMAIN queue : queue[k].id # received[w].id
            /\ \A v \in Workers : v # w => received[v].id # received[w].id
            /\ \A v \in Workers :
                received[v].id = received[w].id =>
                    \A k \in CallsOf(v, "put") : calls[v][k].result # "ok"

C13_Witness ==
    \E w \in Workers : \E m \in published :
        /\ CycleFailed(w)
        /\ received[w].id = m.id
        /\ outcome[w].exit = "panic"
        /\ \E v \in Workers : v # w /\ wpc[v] = "done" /\ received[v] = NoMessage

\* worker w consumed a message whose body is not a Job
ConsumedMalformed(w) ==
    /\ wpc[w] # "idle"
    /\ received[w].body \in ForeignBodies

\* C14 as stated: a consumed message that does not deserialize ends the
\* cycle in Done(error), without a store call.
C14_DeserializationIsError ==
    \A w \in Workers :
        ConsumedMalformed(w) =>
            /\ wpc[w] = "done"
            /\ outcome[w].exit \in {"error", "panic"}
            /\ calls[w] = <<>>

\* C14 amended: a consumed message that does not deserialize ends the cycle
\* with main returning Ok(()), the exit of the empty-queue no-op, told apart
\* from it by the printed message only; the cycle makes no store call, keeps
\* no Job and the message is not put back for a retry.
C14_DeserializationIsNoOp ==
    \A w \in Workers :
        ConsumedMalformed(w) =>
            /\ wpc[w] = "done"
            /\ outcome[w] = Done("ok", "deserialize")
            /\ outcome[w].exit = Done("ok", "empty").exit
            /\ calls[w] = <<>>
            /\ job[w] = NoJob
            /\ \A k \in DOMAIN queue : queue[k].id # received[w].id

C14_Witness ==
    \E w \in Workers :
        /\ ConsumedMalformed(w)
        /\ outcome[w] = Done("ok", "deserialize")
        /\ queue # <<>>

\* the bytes worker w holds reach the end of the source blob
Drained(w) ==
    /\ SourceKey(job[w]) \in DOMAIN store
    /\ Len(bytes'[w]) >= Len(store[SourceKey(job[w])].data)

\* C15: a worker cycle only moves forward: Idle, Received (streaming),
\* Decoded and Transformed (the drained bytes decode, then encode, before the
\* derived write is issued), Stored, Done; the only other steps are the exits
\* to Done(empty) and Done(error) that belong to the state left, and a cycle
\* that is done does nothing more.
C15_ForwardOnly ==
    [][\A w \in Workers :
        /\ wpc[w] = "done" =>
            wpc'[w] = "done" /\ outcome'[w] = outcome[w] /\ calls'[w] = calls[w]
        /\ wpc[w] = "idle" => calls'[w] = <<>>
        /\ wpc[w] = "put" /\ calls'[w] # calls[w] =>
            /\ wpc'[w] = "done"
            /\ calls'[w][Len(calls'[w])].op = "put"
            /\ \A k \in DOMAIN calls[w] : calls[w][k].op = "get"
        /\ wpc'[w] # wpc[w] =>
            \/ /\ wpc[w] = "idle" /\ wpc'[w] = "stream"
               /\ received'[w] # NoMessage /\ bytes'[w] = <<>>
            \/ /\ wpc[w] = "idle" /\ wpc'[w] = "done"
               /\ outcome'[w].kind \in {"receive", "empty", "deserialize"}
            \/ /\ wpc[w] = "stream" /\ wpc'[w] = "put"
               /\ Drained(w) /\ load_from_memory(bytes'[w])
            \/ /\ wpc[w] = "stream" /\ wpc'[w] = "done"
               /\ outcome'[w].kind = "read"
            \/ /\ wpc[w] = "stream" /\ wpc'[w] = "done"
               /\ outcome'[w].kind = "decode"
               /\ Drained(w) /\ ~load_from_memory(bytes'[w])
            \/ /\ wpc[w] = "stream" /\ wpc'[w] = "done"
               /\ outcome'[w].kind = "encode"
               /\ Drained(w) /\ load_from_memory(bytes'[w])
            \/ /\ wpc[w] = "put" /\ wpc'[w] = "done"
               /\ outcome'[w].kind \in {"put", "stored"}]_vars

C15_Witness ==
    \E w \in Workers :
        /\ outcome[w] = Done("ok", "stored")
        /\ Len(calls[w]) = Len(SourceImage) + 1
        /\ calls[w][Len(calls[w])].op = "put"
        /\ \A k \in 1..Len(SourceImage) : calls[w][k].op = "get"

\* how far worker w is in its cycle
Progress(w) ==
    CASE wpc[w] = "idle" -> 0
      [] wpc[w] = "stream" -> 1 + Len(bytes[w])
      [] wpc[w] = "put" -> 2 + Len(SourceImage)
      [] OTHER -> 3 + Len(SourceImage)

\* C16: one invocation of the worker is at most one cycle: it receives once
\* (a started worker never receives again), the queue loses a message only
\* to the receive of one starting worker and only its head, a worker sends at
\* most one write of a derived object, and it reaches Done instead of
\* looping: a worker that is not done can always take its next step, and
\* every step takes it strictly forward on a bounded scale that ends in Done.
C16_OneCycle ==
    /\ [](\A w \in Workers :
            /\ wpc[w] # "done" => ENABLED main(w)
            /\ wpc[w] = "stream" => Len(bytes[w]) <= Len(SourceImage)
            /\ wpc[w] = "done" <=> outcome[w] # Running)
    /\ [][/\ \A w \in Workers :
              /\ wpc[w] # "idle" => wpc'[w] # "idle" /\ received'[w] = received[w]
              /\ Cardinality({k \in DOMAIN calls'[w] : calls'[w][k].op = "put"}) <= 1
              /\ <<wpc[w], bytes[w], calls[w], outcome[w]>>
                     # <<wpc'[w], bytes'[w], calls'[w], outcome'[w]>>
                   => Progress(w)' > Progress(w)
          /\ Len(queue') >= Len(queue) - 1
          /\ Len(queue') < Len(queue) =>
              \E w \in Workers :
                  /\ wpc[w] = "idle" /\ wpc'[w] # "idle"
                  /\ received'[w] = Head(queue)
                  /\ queue' = Tail(queue)
                  /\ \A v \in Workers : v # w => wpc'[v] = wpc[v]]_vars

C16_Witness ==
    /\ \A w \in Workers : wpc[w] = "done"
    /\ \E w \in Workers : received[w] # NoMessage
    /\ queue # <<>>

\* the object part i was written to
ObjectKey(i) == <<configuredContainer, form[i].filename>>

\* the write of part i succeeded and its publish failed
PublishFailedAfterWrite(i) == writes[i] = "ok" /\ pubs[i] = "err"

MissingFilename(i) == HasPayload(form[i].data) /\ form[i].filename = NoFilename

\* C18: a part with a payload and no filename fails as a per-part error: once
\* the handler is done with it, no object was written and no Job published
\* for it, and the request was not aborted at that part.
C18_MissingFilenamePerPart ==
    \A i \in DOMAIN form :
        (MissingFilename(i) /\ PartOver(i))
        => /\ writes[i] = "none"
           /\ pubs[i] = "none"
           /\ ~(pc = "panicked" /\ idx = i)

\* this step is a step of worker w
WorkerMoved(w) ==
    \/ wpc'[w] # wpc[w]
    \/ bytes'[w] # bytes[w]
    \/ calls'[w] # calls[w]

\* the one key a cycle of worker w may write
ResizedKey(w) == <<job[w].image_container, "resized_" \o job[w].filename>>

\* C19: a step of a worker changes the store at no key other than
\* (Job.containerName, "resized_" + Job.filename), and only in the step in
\* which its derived write succeeds: no key is removed, the source object of
\* the Job keeps its value, and a cycle that ends any other way (no message,
\* unparsable body, read error, decode or encode failure, failed write) ends
\* with the store as the step found it.
C19_WorkerFrame ==
    [][\A w \in Workers :
        WorkerMoved(w) =>
            /\ \A k \in DOMAIN store :
                /\ k \in DOMAIN store'
                /\ k # ResizedKey(w) => store'[k] = store[k]
            /\ \A k \in DOMAIN store' : k \notin DOMAIN store => k = ResizedKey(w)
            /\ SourceKey(job[w]) \in DOMAIN store
                => store'[SourceKey(job[w])] = store[SourceKey(job[w])]
            /\ store' # store => wpc[w] = "put" /\ outcome'[w].kind = "stored"
            /\ (wpc'[w] = "done" /\ outcome'[w].kind # "stored") => store' = store
      ]_vars

C19_Witness ==
    \E w \in Workers : \E v \in Workers :
        /\ outcome[w].kind = "stored"
        /\ SourceKey(job[w]) \in DOMAIN store
        /\ store[SourceKey(job[w])] = Blob(SourceImage, ContentType)
        /\ store[ResizedKey(w)] = Blob(Thumbnail, ContentType)
        /\ DOMAIN store = {SourceKey(job[w]), ResizedKey(w)}
        /\ outcome[v].kind \in {"empty", "read", "decode"}

\* the derived writes the store acknowledged: <<worker, position in calls>>
DerivedWrites ==
    UNION {{<<w, k>> : k \in {n \in CallsOf(w, "put") : calls[w][n].result = "ok"}} :
              w \in Workers}

\* the workers whose receive returned a message
Consumers == {w \in Workers : received[w] # NoMessage}

\* the workers whose receive returned a message the ingress had published
ConsumersOfPublished ==
    {w \in Workers :
        \E m \in published : m.id = received[w].id /\ m.body = received[w].body}

\* the queue held no message of another sender when the run began
QueueStartedEmpty ==
    /\ \A k \in DOMAIN queue : queue[k].id # 0
    /\ \A w \in Workers : received[w].id # 0

====
